---- MODULE Spec2Model ----
(***************************************************************************)
(* Model of the Home page component (front-end/app/page.tsx): six useState *)
(* cells, the submit and key handlers, the typing-animation useEffect and  *)
(* the timers they schedule.                                               *)
(*                                                                         *)
(* Strings are sequences of one-character strings.  One action is one      *)
(* event-loop task: the handler or timer callback, the re-render its       *)
(* setState calls cause, and the passive-effect flush of that render (the  *)
(* previous effect's cleanup, the effect body, and the second render that  *)
(* the effect's own setState calls cause).                                 *)
(***************************************************************************)
EXTENDS Integers, Sequences, FiniteSets, TLC

\* ---------------------------------------------------------------- bounds
MaxQueryLen == 1
MaxMounts == 2

\* ------------------------------------------------------ program constants
RevealDelay == 50
HoldDelay == 2000
EraseDelay == 30
LoadDelay == 3000

\* Characters a user can put in the query field: a blank and a letter.
QueryChars == {" ", "a"}

RECURSIVE SeqsUpTo(_, _)
SeqsUpTo(S, n) ==
    IF n = 0 THEN {<<>>}
    ELSE LET shorter == SeqsUpTo(S, n - 1)
         IN  shorter \cup {Append(s, c) : s \in {x \in shorter : Len(x) = n - 1}, c \in S}

QueryValues == SeqsUpTo(QueryChars, MaxQueryLen)

\* Prompt lists the component is instantiated with (page.tsx fixes one list
\* of three non-empty strings; the animation code is generic in the list).
PromptLists ==
    { << <<"H", "i">>, <<"Y", "o">> >>,
      << <<"a">> >>,
      << <<"a", "b">>, <<"c">>, <<"a", "b", "c">> >> }

VARIABLES
    samplePrompts,       \* the prompt list of this page
    mounted,             \* whether a Home instance is currently mounted
    instance,            \* which mount of the page this is (1, 2, ...)
    query,
    isLoading,
    webSearchEnabled,
    currentSampleIndex,  \* 0-based, as in the source
    displayedText,
    isTyping,
    timers,              \* pending setTimeout callbacks of the host
    timeoutId,           \* timeoutId of the latest effect run (0: undefined)
    lastEvent,           \* the event-loop task that ran last
    lastSubmit           \* what handleSubmit did in that task

vars == <<samplePrompts, mounted, instance, query, isLoading, webSearchEnabled,
          currentSampleIndex, displayedText, isTyping, timers, timeoutId,
          lastEvent, lastSubmit>>

animVars == <<currentSampleIndex, displayedText, isTyping>>
formVars == <<query, isLoading, webSearchEnabled>>

\* ---------------------------------------------------------- pure helpers
Min(a, b) == IF a < b THEN a ELSE b
Max(a, b) == IF a > b THEN a ELSE b

\* String.prototype.slice(start, end): negative arguments count from the end,
\* both are clamped to [0, length].
SliceIndex(n, len) == IF n < 0 THEN Max(len + n, 0) ELSE Min(n, len)

Slice(s, start, end) ==
    SubSeq(s, SliceIndex(start, Len(s)) + 1, SliceIndex(end, Len(s)))

IsWhite(c) == c = " "

\* String.prototype.trim(): strips leading and trailing white space.
RECURSIVE TrimStart(_)
TrimStart(s) ==
    IF Len(s) > 0 /\ IsWhite(Head(s)) THEN TrimStart(Tail(s)) ELSE s

RECURSIVE TrimEnd(_)
TrimEnd(s) ==
    IF Len(s) > 0 /\ IsWhite(s[Len(s)]) THEN TrimEnd(SubSeq(s, 1, Len(s) - 1)) ELSE s

Trim(s) == TrimEnd(TrimStart(s))

\* JavaScript truthiness of a string: non-empty.
Truthy(s) == Len(s) > 0

\* samplePrompts[i] with the source's 0-based index.
PromptAt(i) == samplePrompts[i + 1]

\* ------------------------------------------------------------ host timers
AnimCallbacks == {"type", "hold", "erase"}

TimerIds(tms) == {t.id : t \in tms}

\* clearTimeout(id): removes the pending timer with that id, if any.
ClearTimeout(tms, id) == {t \in tms : t.id # id}

\* The handle setTimeout returns: a non-zero integer that no pending timer
\* holds and that differs from last, the handle the latest effect run was given
\* (the host does not reuse handles).  Only their distinctness matters, so the
\* effect's timers are handed the positive integers (dir = 1) and
\* handleSubmit's the negative ones (dir = -1).
RECURSIVE NextFree(_, _, _)
NextFree(k, used, dir) ==
    IF dir * k \in used THEN NextFree(k + 1, used, dir) ELSE dir * k

FreshId(tms, last, dir) == NextFree(1, TimerIds(tms) \cup {last}, dir)

\* setTimeout(cb, delay) with the values the callback's closure captured.
SetTimeout(tms, id, cb, prompt, text, inst, delay) ==
    tms \cup {[id |-> id, cb |-> cb, prompt |-> prompt, text |-> text,
               inst |-> inst, delay |-> delay]}

\* ------------------------------------------------- typing animation effect
\* A variant of AdvanceIndex that steps by two.
AdvanceIndexSkips(prev) == (prev + 2) % Len(samplePrompts)

\* (prev) => (prev + 1) % samplePrompts.length
AdvanceIndex(prev) == (prev + 1) % Len(samplePrompts)

\* A variant of TypeCallback that reveals two characters at a time.
TypeCallbackTwoChars(currentPrompt, text) == Slice(currentPrompt, 0, Len(text) + 2)

\* The callback of the 50 ms timer: currentPrompt.slice(0, displayedText.length + 1)
TypeCallback(currentPrompt, text) == Slice(currentPrompt, 0, Len(text) + 1)

\* A variant of EraseCallback that drops the first character: slice(1).
EraseCallbackDropsFirst(text) == Slice(text, 1, Len(text))

\* The callback of the 30 ms timer: displayedText.slice(0, -1)
EraseCallback(text) == Slice(text, 0, -1)

\* One run of the effect body on the rendered state (idx, text, typing):
\* the timers after it, the timeoutId its cleanup closes over, and whether it
\* called setCurrentSampleIndex / setIsTyping(true) itself.
RunEffect(idx, text, typing, tms, last, inst) ==
    LET currentPrompt == PromptAt(idx)
        id == FreshId(tms, last, 1)
    IN  IF typing
        THEN IF Len(text) < Len(currentPrompt)
             THEN [timers |-> SetTimeout(tms, id, "type", currentPrompt, text, inst,
                                         RevealDelay),
                   timeoutId |-> id, advance |-> FALSE]
             ELSE [timers |-> SetTimeout(tms, id, "hold", currentPrompt, text, inst,
                                         HoldDelay),
                   timeoutId |-> id, advance |-> FALSE]
        ELSE IF Len(text) > 0
             THEN [timers |-> SetTimeout(tms, id, "erase", currentPrompt, text, inst,
                                         EraseDelay),
                   timeoutId |-> id, advance |-> FALSE]
             ELSE [timers |-> tms, timeoutId |-> 0, advance |-> TRUE]

\* A variant of Cleanup that does not clear the timer.
CleanupKeepsTimer(tms, id) == tms

\* The cleanup the effect returns: () => clearTimeout(timeoutId)
Cleanup(tms, id) == ClearTimeout(tms, id)

\* The passive-effect flush of a committed render: the previous run's cleanup,
\* the effect body, and, when the body set state, the render and flush that
\* follow from it.
Flush(idx, text, typing, tms, prevId, inst) ==
    LET first == RunEffect(idx, text, typing, Cleanup(tms, prevId), prevId, inst)
    IN  IF first.advance
        THEN LET idx2 == AdvanceIndex(idx)
                 second == RunEffect(idx2, text, TRUE,
                                     Cleanup(first.timers, first.timeoutId), prevId, inst)
             IN  [idx |-> idx2, text |-> text, typing |-> TRUE,
                  timers |-> second.timers, timeoutId |-> second.timeoutId]
        ELSE [idx |-> idx, text |-> text, typing |-> typing,
              timers |-> first.timers, timeoutId |-> first.timeoutId]

\* samplePrompts is an array literal in the component body: every render
\* builds a new array, so this dependency never compares equal.
SamplePromptsChanged == TRUE

\* [displayedText, isTyping, currentSampleIndex, samplePrompts] against the
\* previous render's values.
EffectDepsChanged(idx, text, typing) ==
    \/ text # displayedText
    \/ typing # isTyping
    \/ idx # currentSampleIndex
    \/ SamplePromptsChanged

\* The state after a render and its effect flush.
Apply(r) ==
    /\ currentSampleIndex' = r.idx
    /\ displayedText' = r.text
    /\ isTyping' = r.typing
    /\ timers' = r.timers
    /\ timeoutId' = r.timeoutId

\* A re-render of the mounted instance with animation state (idx, text, typing)
\* and pending timers tms, and its effect flush when a dependency changed.
Commit(idx, text, typing, tms) ==
    \E r \in {IF EffectDepsChanged(idx, text, typing)
              THEN Flush(idx, text, typing, tms, timeoutId, instance)
              ELSE [idx |-> idx, text |-> text, typing |-> typing,
                    timers |-> tms, timeoutId |-> timeoutId]} :
        Apply(r)

\* ------------------------------------------------------------ the controls
\* A variant of InputDisabled: the field without its disabled attribute.
InputNeverDisabled == FALSE

\* <input ... disabled={isLoading} />
InputDisabled == isLoading

\* A variant of SubmitDisabled: disabled={!query.trim()}.
SubmitDisabledIgnoresLoading == ~Truthy(Trim(query))

\* <button type="submit" disabled={!query.trim() || isLoading}>
SubmitDisabled == ~Truthy(Trim(query)) \/ isLoading

\* handleSubmit: if (query.trim()) { setIsLoading(true); setTimeout(..., 3000) }
HandleSubmit ==
    IF Truthy(Trim(query))
    THEN LET after == SetTimeout(timers, FreshId(timers, timeoutId, -1), "load", <<>>, <<>>,
                               instance, LoadDelay)
         IN  /\ isLoading' = TRUE
             /\ lastSubmit' = "accepted"
             /\ IF isLoading
                THEN /\ timers' = after
                     /\ UNCHANGED <<animVars, timeoutId>>
                ELSE Commit(currentSampleIndex, displayedText, isTyping, after)
    ELSE /\ lastSubmit' = "rejected"
         /\ UNCHANGED <<isLoading, animVars, timers, timeoutId>>

\* ----------------------------------------------------------------- actions
Init ==
    /\ samplePrompts \in PromptLists
    /\ mounted = TRUE
    /\ instance = 1
    /\ query = <<>>
    /\ isLoading = FALSE
    /\ webSearchEnabled = FALSE
    /\ currentSampleIndex = 0
    /\ displayedText = <<>>
    /\ isTyping = TRUE
    /\ timers = RunEffect(0, <<>>, TRUE, {}, 0, 1).timers
    /\ timeoutId = RunEffect(0, <<>>, TRUE, {}, 0, 1).timeoutId
    /\ lastEvent = "mount"
    /\ lastSubmit = "none"

\* A variant of SetQuery that also restarts the animation's text.
SetQueryRestartsAnimation(q) ==
    /\ mounted
    /\ ~isLoading
    /\ q # query
    /\ query' = q
    /\ Commit(currentSampleIndex, <<>>, TRUE, timers)
    /\ lastEvent' = "change"
    /\ lastSubmit' = "none"
    /\ UNCHANGED <<samplePrompts, mounted, instance, isLoading, webSearchEnabled>>

\* onChange={(e) => setQuery(e.target.value)}
SetQuery(q) ==
    /\ mounted
    /\ ~InputDisabled
    /\ q # query
    /\ query' = q
    /\ Commit(currentSampleIndex, displayedText, isTyping, timers)
    /\ lastEvent' = "change"
    /\ lastSubmit' = "none"
    /\ UNCHANGED <<samplePrompts, mounted, instance, isLoading, webSearchEnabled>>

\* onClick={() => setWebSearchEnabled(!webSearchEnabled)}
ToggleWebSearch ==
    /\ mounted
    /\ webSearchEnabled' = ~webSearchEnabled
    /\ Commit(currentSampleIndex, displayedText, isTyping, timers)
    /\ lastEvent' = "toggle"
    /\ lastSubmit' = "none"
    /\ UNCHANGED <<samplePrompts, mounted, instance, query, isLoading>>

\* A click on the submit button: <form onSubmit={handleSubmit}>.
ClickSubmit ==
    /\ mounted
    /\ ~SubmitDisabled
    /\ HandleSubmit
    /\ lastEvent' = "click"
    /\ UNCHANGED <<samplePrompts, mounted, instance, query, webSearchEnabled>>

\* handleKeyDown's test: e.key === 'Enter' && !e.shiftKey
KeyIsSubmit(key, shiftKey) == key = "Enter" /\ ~shiftKey

\* A keydown in the text field.  When handleKeyDown does not call
\* preventDefault, the key's default action follows: for Enter in a text field
\* of a form that is implicit submission, which the host performs (uaSubmits)
\* only when the form's submit button is not disabled, and which runs the
\* form's onSubmit, handleSubmit.
KeyDown(key, shiftKey, uaSubmits) ==
    /\ mounted
    /\ ~InputDisabled
    /\ IF KeyIsSubmit(key, shiftKey)
       THEN HandleSubmit
       ELSE IF key = "Enter" /\ uaSubmits /\ ~SubmitDisabled
            THEN HandleSubmit
            ELSE /\ lastSubmit' = "none"
                 /\ UNCHANGED <<isLoading, animVars, timers, timeoutId>>
    /\ lastEvent' = IF key = "Enter"
                    THEN (IF shiftKey THEN "shiftEnter" ELSE "enter")
                    ELSE "key"
    /\ UNCHANGED <<samplePrompts, mounted, instance, query, webSearchEnabled>>

\* A pending animation timer fires and its callback sets state.
AnimTimerFire ==
    \E t \in timers :
        /\ t.cb \in AnimCallbacks
        /\ lastEvent' = "animTimer"
        /\ lastSubmit' = "none"
        /\ UNCHANGED <<samplePrompts, mounted, instance, formVars>>
        /\ IF mounted /\ t.inst = instance
           THEN CASE t.cb = "type" ->
                       Commit(currentSampleIndex, TypeCallback(t.prompt, t.text),
                              isTyping, timers \ {t})
                  [] t.cb = "hold" ->
                       Commit(currentSampleIndex, displayedText, FALSE, timers \ {t})
                  [] t.cb = "erase" ->
                       Commit(currentSampleIndex, EraseCallback(t.text),
                              isTyping, timers \ {t})
           ELSE /\ timers' = timers \ {t}
                /\ UNCHANGED <<animVars, timeoutId>>

\* The 3000 ms timer of handleSubmit fires: () => setIsLoading(false).  A set
\* to the value already held, or on an instance that is gone, renders nothing.
LoadTimerFire ==
    \E t \in timers :
        /\ t.cb = "load"
        /\ lastEvent' = "loadTimer"
        /\ lastSubmit' = "none"
        /\ UNCHANGED <<samplePrompts, mounted, instance, query, webSearchEnabled>>
        /\ IF mounted /\ t.inst = instance /\ isLoading
           THEN /\ isLoading' = FALSE
                /\ Commit(currentSampleIndex, displayedText, isTyping, timers \ {t})
           ELSE /\ timers' = timers \ {t}
                /\ UNCHANGED <<isLoading, animVars, timeoutId>>

\* The page is unmounted: the effect's cleanup runs and the state cells are
\* dropped (while no instance is mounted the variables hold the useState
\* initial values, the only values a later mount can start from).
Unmount ==
    /\ mounted
    /\ mounted' = FALSE
    /\ timers' = Cleanup(timers, timeoutId)
    /\ timeoutId' = 0
    /\ query' = <<>>
    /\ isLoading' = FALSE
    /\ webSearchEnabled' = FALSE
    /\ currentSampleIndex' = 0
    /\ displayedText' = <<>>
    /\ isTyping' = TRUE
    /\ lastEvent' = "unmount"
    /\ lastSubmit' = "none"
    /\ UNCHANGED <<samplePrompts, instance>>

\* The page is mounted again: fresh useState cells, first effect run.
Mount ==
    /\ ~mounted
    /\ instance < MaxMounts
    /\ mounted' = TRUE
    /\ instance' = instance + 1
    /\ query' = <<>>
    /\ isLoading' = FALSE
    /\ webSearchEnabled' = FALSE
    /\ \E r \in {Flush(0, <<>>, TRUE, timers, 0, instance + 1)} : Apply(r)
    /\ lastEvent' = "mount"
    /\ lastSubmit' = "none"
    /\ UNCHANGED samplePrompts

Next ==
    \/ \E q \in QueryValues : SetQuery(q)
    \/ ToggleWebSearch
    \/ ClickSubmit
    \/ \E key \in {"Enter", "a"}, shiftKey \in BOOLEAN, uaSubmits \in BOOLEAN :
          KeyDown(key, shiftKey, uaSubmits)
    \/ AnimTimerFire
    \/ LoadTimerFire
    \/ Unmount
    \/ Mount

Spec == Init /\ [][Next]_vars

\* Timers that are not cleared fire once their delay has passed.
FairSpec == Spec /\ WF_vars(AnimTimerFire) /\ WF_vars(LoadTimerFire)

TypeOK ==
    /\ samplePrompts \in PromptLists
    /\ mounted \in BOOLEAN
    /\ instance \in 1..MaxMounts
    /\ query \in QueryValues
    /\ isLoading \in BOOLEAN
    /\ webSearchEnabled \in BOOLEAN
    /\ currentSampleIndex \in 0..(Len(samplePrompts) - 1)
    /\ isTyping \in BOOLEAN
    /\ timeoutId \in Nat
    /\ \A t \in timers : t.id # 0
    /\ lastSubmit \in {"none", "accepted", "rejected"}

\* ------------------------------------------------------------------ claims
AnimTimers(tms) == {t \in tms : t.cb \in AnimCallbacks}
LoadTimers(tms) == {t \in tms : t.cb = "load"}

\* The prompt lists' indices, for quantifying in temporal formulas.
IndexValues == UNION {0..(Len(l) - 1) : l \in PromptLists}

\* The state right after a step in which the effect advanced the index: the
\* animation timer's callback emptied the text and the effect restarted typing.
JustAdvanced == lastEvent = "animTimer" /\ isTyping /\ displayedText = <<>>

\* C1: in every reachable state displayedText is a contiguous prefix of
\* samplePrompts[currentSampleIndex]: its length is between 0 and the prompt's
\* length and it equals the prompt's first Len(displayedText) characters.
C1_DisplayedTextIsPrefix ==
    LET p == PromptAt(currentSampleIndex)
    IN  /\ Len(displayedText) \in 0..Len(p)
        /\ displayedText = SubSeq(p, 1, Len(displayedText))

\* C1 witness: the second prompt half erased, after the user has typed a query.
C1_Witness ==
    /\ mounted
    /\ currentSampleIndex = 1
    /\ ~isTyping
    /\ Len(displayedText) = 1
    /\ Len(PromptAt(1)) = 2
    /\ query # <<>>

C3_StepSequence ==
    [][(lastEvent' = "animTimer" /\ mounted)
         => LET p == PromptAt(currentSampleIndex)
                n == Len(displayedText)
            IN  CASE isTyping /\ n < Len(p) ->
                       /\ displayedText' = SubSeq(p, 1, n + 1)
                       /\ isTyping'
                       /\ currentSampleIndex' = currentSampleIndex
                  [] isTyping /\ n >= Len(p) ->
                       /\ displayedText = p
                       /\ displayedText' = displayedText
                       /\ ~isTyping'
                       /\ currentSampleIndex' = currentSampleIndex
                  [] ~isTyping /\ n > 1 ->
                       /\ displayedText' = SubSeq(displayedText, 1, n - 1)
                       /\ ~isTyping'
                       /\ currentSampleIndex' = currentSampleIndex
                  [] ~isTyping /\ n = 1 ->
                       /\ displayedText' = <<>>
                       /\ isTyping'
                       /\ currentSampleIndex' =
                              (currentSampleIndex + 1) % Len(samplePrompts)
                  [] OTHER -> FALSE]_vars

\* C3 witness: with ["Hi", "Yo"], the step that emptied "H" has set index 1
\* and Growing.
C3_Witness ==
    /\ samplePrompts = << <<"H", "i">>, <<"Y", "o">> >>
    /\ mounted
    /\ instance = 1
    /\ JustAdvanced
    /\ currentSampleIndex = 1

\* C4: isLoading becomes true, or a delay timer is scheduled, only in a step
\* taken from a state whose trimmed query is non-empty and whose isLoading is
\* false; a submit event taken from any other state changes neither isLoading
\* nor the set of delay timers.
C4_SubmitOnlyWhenValid ==
    [][/\ (instance' = instance
             /\ \/ (isLoading' /\ ~isLoading)
                \/ ~(LoadTimers(timers') \subseteq LoadTimers(timers)))
          => (Truthy(Trim(query)) /\ ~isLoading)
       /\ (lastSubmit' # "none" /\ ~(Truthy(Trim(query)) /\ ~isLoading))
          => /\ isLoading' = isLoading
             /\ LoadTimers(timers') = LoadTimers(timers)]_vars

\* C4 witness: Enter was pressed on a whitespace-only query and handleSubmit
\* did nothing.
C4_Witness ==
    /\ mounted
    /\ lastEvent = "enter"
    /\ lastSubmit = "rejected"
    /\ query # <<>>
    /\ ~isLoading
    /\ LoadTimers(timers) = {}

\* C5: an accepted submit sets isLoading at once; while the instance is
\* loading exactly one delay timer of it is pending, query does not change,
\* and isLoading changes only in the step in which that timer fires, which
\* sets it to false; and every loading instance stops loading.
C5_LoadingUntilTimer ==
    /\ [][lastSubmit' = "accepted" => (isLoading' /\ ~isLoading)]_vars
    /\ [](mounted /\ isLoading
            => Cardinality({t \in LoadTimers(timers) : t.inst = instance}) = 1)
    /\ [][(mounted /\ isLoading /\ mounted' /\ instance' = instance)
            => /\ query' = query
               /\ \/ isLoading'
                  \/ /\ lastEvent' = "loadTimer"
                     /\ \E t \in LoadTimers(timers) :
                           t.inst = instance /\ t \notin timers']_vars
    /\ [][(mounted /\ isLoading /\ lastEvent' = "loadTimer"
             /\ \E t \in LoadTimers(timers) : t.inst = instance /\ t \notin timers')
            => ~isLoading']_vars
    /\ isLoading ~> ~isLoading

\* C5 witness: the delay timer of the first instance has fired and cleared the
\* flag that a submit of the still present query had set.
C5_Witness ==
    /\ mounted
    /\ instance = 1
    /\ lastEvent = "loadTimer"
    /\ ~isLoading
    /\ Truthy(Trim(query))
    /\ LoadTimers(timers) = {}

\* C6: a keydown of Enter with shift held never runs the submit action, and a
\* keydown of Enter without shift runs it whenever the trimmed query is
\* non-empty and the page is not loading.
C6_ShiftEnterNeverSubmits ==
    [][/\ lastEvent' = "shiftEnter"
          => (lastSubmit' = "none" /\ isLoading' = isLoading
              /\ LoadTimers(timers') = LoadTimers(timers))
       /\ (lastEvent' = "enter" /\ Truthy(Trim(query)) /\ ~isLoading)
          => (lastSubmit' = "accepted" /\ isLoading')]_vars

\* C7: every pending timer belongs to the instance that is mounted: after an
\* unmount no callback of the page is left to fire.
C7_NoCallbackOutlivesPage ==
    \A t \in timers : mounted /\ t.inst = instance

\* C8: a pending animation timer leaves the timer set only by firing or by
\* the unmount of the page.
C8_OnlyFiringOrUnmountRemoves ==
    [][\A t \in AnimTimers(timers) :
          t \notin timers' => lastEvent' \in {"animTimer", "unmount"}]_vars

\* C9: at most one animation timer is pending (exactly one while mounted); it
\* is the one the latest effect run scheduled, and its callback closes over
\* the current displayedText and the current prompt, in the branch the
\* current phase selects.
C9_OneCurrentAnimTimer ==
    /\ Cardinality(AnimTimers(timers)) = (IF mounted THEN 1 ELSE 0)
    /\ \A t \in AnimTimers(timers) :
          /\ t.inst = instance
          /\ t.id = timeoutId
          /\ t.text = displayedText
          /\ t.prompt = PromptAt(currentSampleIndex)
          /\ t.cb = IF ~isTyping THEN "erase"
                    ELSE IF Len(displayedText) < Len(t.prompt) THEN "type"
                    ELSE "hold"

\* C9 witness: an erase step has fired and the next erase step is pending,
\* while a delay timer is pending too.
C9_Witness ==
    /\ mounted
    /\ lastEvent = "animTimer"
    /\ ~isTyping
    /\ Len(displayedText) = 1
    /\ isLoading
    /\ Cardinality(timers) = 2

\* C10: an animation step leaves query, isLoading and webSearchEnabled
\* unchanged; a query edit, toggle, click, keydown or delay-timer firing
\* leaves currentSampleIndex, displayedText and isTyping unchanged.
C10_DisjointWriters ==
    [][/\ lastEvent' = "animTimer" => UNCHANGED formVars
       /\ lastEvent' \in {"change", "toggle", "click", "enter", "shiftEnter",
                          "key", "loadTimer"}
          => UNCHANGED animVars]_vars

\* C10 witness: the delay timer fired while the animation was half way
\* through erasing, with a query typed and web search switched on.
C10_Witness ==
    /\ mounted
    /\ lastEvent = "loadTimer"
    /\ ~isTyping
    /\ Len(displayedText) = 1
    /\ webSearchEnabled
    /\ query # <<>>

====
